---------------------------- MODULE Spec2Model ----------------------------
(***************************************************************************)
(* Model of the flow-mesh generation pipeline of animated-flow-ts:         *)
(*   flow/shared      smooth, createFlowFieldFromData, trace,              *)
(*                    getStreamLines, createStreamLinesMesh                *)
(*   flow/processors  MainFlowProcessor, WorkerFlowProcessor               *)
(*   flow/settings    the settings                                         *)
(*   wind/wind-shared the earlier variant (smooth, trace, createWindMesh)  *)
(*                                                                         *)
(* Numbers.  The program computes in IEEE floating point; the model        *)
(* computes in fixed point on integers, each quantity in its own unit:     *)
(*   velocity  1/VelScale cells per second                                 *)
(*   position  1/PosScale cells (or pixels once multiplied by cellSize)    *)
(*   time      1/TimeScale seconds                                         *)
(*   weight    1/WeightScale                                               *)
(* A quotient is rounded down where the program rounds to nearest float.   *)
(* A division by zero yields NaN or Infinity as in the program.            *)
(***************************************************************************)
EXTENDS Integers, Sequences, FiniteSets, TLC

(***************************************************************************)
(* Units of the fixed-point representation.                                *)
(***************************************************************************)
VelScale == 10 * 100
PosScale == 10 * 10
TimeScale == 10 * 100
WeightScale == 10 * 100
NormScale == 10 * 100
SpeedOutScale == 100 * 100
RandScale == 10 * 100

(***************************************************************************)
(* The values a division by zero produces.                                 *)
(***************************************************************************)
NaN == -(2 * 1000000000)
Infinity == 2 * 1000000000

IsFinite(a) == a # NaN /\ a # Infinity /\ a # -Infinity

\* JS a / b on fixed-point operands: k * a / b, rounded down
Div(a, b) ==
    IF a = NaN \/ b = NaN THEN NaN
    ELSE IF b = 0 THEN (IF a = 0 THEN NaN ELSE IF a > 0 THEN Infinity ELSE -Infinity)
    ELSE a \div b

\* JS unary minus
Neg(a) == IF a = NaN THEN NaN ELSE -a

RECURSIVE IsqrtIter(_, _)
IsqrtIter(n, x) ==
    LET y == (x + n \div x) \div 2
    IN  IF y >= x THEN x ELSE IsqrtIter(n, y)

\* Math.sqrt on a fixed-point square: the integer square root
Sqrt(n) == IF n <= 0 THEN 0 ELSE IsqrtIter(n, n)

\* Math.round of a value given in 1/scale units: nearest integer, ties up
Round(a, scale) == (2 * a + scale) \div (2 * scale)

RECURSIVE SeqSum(_)
SeqSum(s) == IF s = <<>> THEN 0 ELSE Head(s) + SeqSum(Tail(s))

(***************************************************************************)
(* flow/settings                                                           *)
(***************************************************************************)
smoothing == 10
segmentLength == 10
\* settings.verticesPerLine is 100 and settings.linesPerVisualization is
\* 4000 in the program; the model runs the same loops over fewer rounds.
verticesPerLine == 3
linesPerVisualization == 3
\* speedScale = 0.1 = 1 / speedScaleInv
speedScaleInv == 10
\* minSpeedThreshold = 0.001 = 1 / minSpeedThresholdInv
minSpeedThresholdInv == 1000
\* minWeightThreshold = 0.001 = 1 / minWeightThresholdInv
minWeightThresholdInv == 1000
flowProcessingQuanta == 100

(***************************************************************************)
(* wind/wind-shared                                                        *)
(***************************************************************************)
\* MIN_SPEED_THRESHOLD = 0.001 = 1 / MIN_SPEED_THRESHOLD_INV
MIN_SPEED_THRESHOLD_INV == 1000
\* while (c < 100): the model runs the loop over fewer rounds
windMaxSteps == 5
\* const speed = 100 / (t1 - t0)
windSpeedFactor == 100

(***************************************************************************)
(* smooth: the separable Gaussian blur.                                    *)
(***************************************************************************)
Sigmas == {1, 2, 10}

\* Math.exp(-d * d / (sigma * sigma)) in 1/WeightScale units, d = 0 .. 3 sigma
ExpTable ==
    [s \in Sigmas |->
        CASE s = 1 -> <<1000, 368, 18, 0>>
          [] s = 2 -> <<1000, 779, 368, 105, 18, 2, 0>>
          [] s = 10 -> <<1000, 990, 961, 914, 852, 779, 698, 613, 527, 445, 368,
                         298, 237, 185, 141, 105, 77, 56, 39, 27, 18, 12, 8, 5,
                         3, 2, 1, 1, 0, 0, 0>>]

Abs(a) == IF a < 0 THEN -a ELSE a

GaussWeight(d, sigma) == ExpTable[sigma][Abs(d) + 1]

\* Math.round(3 * sigma)
HalfRadius(sigma) == 3 * sigma

\* the offsets d of the kernel that the guard `pos + d < 0 || pos + d >= size`
\* keeps, in loop order
KernelOffsets(pos, size, sigma) ==
    LET lo == IF pos - HalfRadius(sigma) < 0 THEN -pos ELSE -HalfRadius(sigma)
        hi == IF pos + HalfRadius(sigma) >= size THEN size - 1 - pos ELSE HalfRadius(sigma)
    IN  [k \in 1..(hi - lo + 1) |-> lo + k - 1]

\* totalWeight < threshold ? 0 : s / totalWeight
Normalise(s, totalWeight, thresholdInv) ==
    IF totalWeight * thresholdInv < WeightScale THEN 0 ELSE Div(s, totalWeight)

\* HorizontalCell dividing by the weight of the whole kernel instead of the
\* weight accumulated inside the grid
HorizontalCellWholeKernel(data, columns, x, y, ch, sigma) ==
    LET ds == KernelOffsets(x, columns, sigma)
        hr == HalfRadius(sigma)
        totalWeight == SeqSum([k \in 1..(2 * hr + 1) |-> GaussWeight(k - 1 - hr, sigma)])
        s == SeqSum([k \in DOMAIN ds |->
                 GaussWeight(ds[k], sigma) * data[2 * (y * columns + (x + ds[k])) + ch + 1]])
    IN  Normalise(s, totalWeight, minWeightThresholdInv)

\* one cell and channel of the horizontal pass (lines 41-58)
HorizontalCell(data, columns, x, y, ch, sigma) ==
    LET ds == KernelOffsets(x, columns, sigma)
        totalWeight == SeqSum([k \in DOMAIN ds |-> GaussWeight(ds[k], sigma)])
        s == SeqSum([k \in DOMAIN ds |->
                 GaussWeight(ds[k], sigma) * data[2 * (y * columns + (x + ds[k])) + ch + 1]])
    IN  Normalise(s, totalWeight, minWeightThresholdInv)

\* one cell and channel of the vertical pass (lines 66-83)
VerticalCell(horizontal, columns, rows, x, y, ch, sigma) ==
    LET ds == KernelOffsets(y, rows, sigma)
        totalWeight == SeqSum([k \in DOMAIN ds |-> GaussWeight(ds[k], sigma)])
        s == SeqSum([k \in DOMAIN ds |->
                 GaussWeight(ds[k], sigma) * horizontal[2 * ((y + ds[k]) * columns + x) + ch + 1]])
    IN  Normalise(s, totalWeight, minWeightThresholdInv)

\* element i (from 1) of a 2-channel, interleaved, row-major table
CellX(i, columns) == ((i - 1) \div 2) % columns
CellY(i, columns) == ((i - 1) \div 2) \div columns
Channel(i) == (i - 1) % 2

smooth(data, columns, rows, sigma) ==
    LET n == Len(data)
        \* new Float32Array(data.length): zero until written
        horizontal == [i \in 1..n |->
            IF CellY(i, columns) < rows
            THEN HorizontalCell(data, columns, CellX(i, columns), CellY(i, columns),
                                Channel(i), sigma)
            ELSE 0]
        final == [i \in 1..n |->
            IF CellY(i, columns) < rows
            THEN VerticalCell(horizontal, columns, rows, CellX(i, columns),
                              CellY(i, columns), Channel(i), sigma)
            ELSE 0]
    IN  final


(***************************************************************************)
(* createFlowFieldFromData: the field is the closure over the smoothed     *)
(* table; the model keeps what the closure captures.                       *)
(***************************************************************************)
createFlowFieldFromData(flowData) ==
    [columns |-> flowData.columns,
     rows |-> flowData.rows,
     data |-> smooth(flowData.data, flowData.columns, flowData.rows, smoothing)]

\* wind-shared: the same, the smoothing given by the caller
createWindFieldFromData(windData, sigma) ==
    [columns |-> windData.columns,
     rows |-> windData.rows,
     data |-> smooth(windData.data, windData.columns, windData.rows, sigma)]

\* the closure `field`: the value of the nearest cell, (0, 0) outside the grid
Sample(f, x, y) ==
    LET X == Round(x, PosScale)
        Y == Round(y, PosScale)
    IN  IF X < 0 \/ X >= f.columns THEN <<0, 0>>
        ELSE IF Y < 0 \/ Y >= f.rows THEN <<0, 0>>
        ELSE <<f.data[2 * (Y * f.columns + X) + 0 + 1],
               f.data[2 * (Y * f.columns + X) + 1 + 1]>>

(***************************************************************************)
(* trace.  The loop state is [x, y, t, i, line, done]; TraceStep is one    *)
(* round of the for loop, trace runs the rounds to the end.                *)
(***************************************************************************)
Vertex(x, y, t) == [position |-> <<x, y>>, time |-> t]

\* lines 130-139: the seed vertex
TraceStart(x0, y0, cellSize) ==
    [x |-> x0, y |-> y0, t |-> 0, i |-> 0, done |-> FALSE,
     line |-> <<Vertex(x0 * cellSize, y0 * cellSize, 0)>>]

\* the scaled velocity vx * speedScale is kept in 1/(VelScale * speedScaleInv)
\* units, in which it is the same integer as vx
ScaledUnit == VelScale * speedScaleInv

\* v < settings.minSpeedThreshold
BelowMinSpeed(v) == v * minSpeedThresholdInv < ScaledUnit

\* TraceStep with the loop running one round too many: i <= verticesPerLine
TraceStepOneRoundMore(f, st, cellSize) ==
    IF ~(st.i <= verticesPerLine) THEN [st EXCEPT !.done = TRUE]
    ELSE
    LET fv == Sample(f, st.x, st.y)
        vx == fv[1]
        vy == fv[2]
        v == Sqrt(vx * vx + vy * vy)
    IN  IF BelowMinSpeed(v) THEN [st EXCEPT !.done = TRUE]
        ELSE
        LET dx == Div(vx * NormScale, v)
            dy == Div(vy * NormScale, v)
            x == st.x + (dx * segmentLength * PosScale) \div NormScale
            y == st.y + (dy * segmentLength * PosScale) \div NormScale
            dt == Div(segmentLength * ScaledUnit * TimeScale, v)
            t == st.t + dt
        IN  [x |-> x, y |-> y, t |-> t, i |-> st.i + 1, done |-> FALSE,
             line |-> Append(st.line, Vertex(x * cellSize, y * cellSize, t))]

\* TraceStep with t = dt in place of t += dt
TraceStepTimeNotSummed(f, st, cellSize) ==
    IF ~(st.i < verticesPerLine) THEN [st EXCEPT !.done = TRUE]
    ELSE
    LET fv == Sample(f, st.x, st.y)
        vx == fv[1]
        vy == fv[2]
        v == Sqrt(vx * vx + vy * vy)
    IN  IF BelowMinSpeed(v) THEN [st EXCEPT !.done = TRUE]
        ELSE
        LET dx == Div(vx * NormScale, v)
            dy == Div(vy * NormScale, v)
            x == st.x + (dx * segmentLength * PosScale) \div NormScale
            y == st.y + (dy * segmentLength * PosScale) \div NormScale
            dt == Div(segmentLength * ScaledUnit * TimeScale, v)
            t == dt
        IN  [x |-> x, y |-> y, t |-> t, i |-> st.i + 1, done |-> FALSE,
             line |-> Append(st.line, Vertex(x * cellSize, y * cellSize, t))]

\* TraceStep testing the speed only after it has pushed a vertex
TraceStepPushBeforeTest(f, st, cellSize) ==
    IF ~(st.i < verticesPerLine) THEN [st EXCEPT !.done = TRUE]
    ELSE
    LET fv == Sample(f, st.x, st.y)
        vx == fv[1]
        vy == fv[2]
        v == Sqrt(vx * vx + vy * vy)
    IN  IF BelowMinSpeed(v)
        THEN [st EXCEPT !.done = TRUE,
                        !.i = st.i + 1,
                        !.line = Append(st.line,
                                        Vertex(st.x * cellSize, st.y * cellSize, st.t))]
        ELSE
        LET dx == Div(vx * NormScale, v)
            dy == Div(vy * NormScale, v)
            x == st.x + (dx * segmentLength * PosScale) \div NormScale
            y == st.y + (dy * segmentLength * PosScale) \div NormScale
            dt == Div(segmentLength * ScaledUnit * TimeScale, v)
            t == st.t + dt
        IN  [x |-> x, y |-> y, t |-> t, i |-> st.i + 1, done |-> FALSE,
             line |-> Append(st.line, Vertex(x * cellSize, y * cellSize, t))]

\* TraceStep with the particle left where it is: x and y not advanced
TraceStepPositionKept(f, st, cellSize) ==
    IF ~(st.i < verticesPerLine) THEN [st EXCEPT !.done = TRUE]
    ELSE
    LET fv == Sample(f, st.x, st.y)
        vx == fv[1]
        vy == fv[2]
        v == Sqrt(vx * vx + vy * vy)
    IN  IF BelowMinSpeed(v) THEN [st EXCEPT !.done = TRUE]
        ELSE
        LET dx == Div(vx * NormScale, v)
            dy == Div(vy * NormScale, v)
            x == st.x
            y == st.y
            dt == Div(segmentLength * ScaledUnit * TimeScale, v)
            t == st.t + dt
        IN  [x |-> x, y |-> y, t |-> t, i |-> st.i + 1, done |-> FALSE,
             line |-> Append(st.line, Vertex(x * cellSize, y * cellSize, t))]

\* lines 141-160: one round of the loop
TraceStep(f, st, cellSize) ==
    IF ~(st.i < verticesPerLine) THEN [st EXCEPT !.done = TRUE]
    ELSE
    LET fv == Sample(f, st.x, st.y)
        vx == fv[1]
        vy == fv[2]
        v == Sqrt(vx * vx + vy * vy)
    IN  IF BelowMinSpeed(v) THEN [st EXCEPT !.done = TRUE]
        ELSE
        LET dx == Div(vx * NormScale, v)
            dy == Div(vy * NormScale, v)
            x == st.x + (dx * segmentLength * PosScale) \div NormScale
            y == st.y + (dy * segmentLength * PosScale) \div NormScale
            dt == Div(segmentLength * ScaledUnit * TimeScale, v)
            t == st.t + dt
        IN  [x |-> x, y |-> y, t |-> t, i |-> st.i + 1, done |-> FALSE,
             line |-> Append(st.line, Vertex(x * cellSize, y * cellSize, t))]

RECURSIVE TraceRun(_, _, _)
TraceRun(f, st, cellSize) ==
    IF st.done THEN st.line ELSE TraceRun(f, TraceStep(f, st, cellSize), cellSize)

\* x0, y0 in cells
trace(f, x0, y0, cellSize) ==
    TraceRun(f, TraceStart(x0 * PosScale, y0 * PosScale, cellSize), cellSize)

(***************************************************************************)
(* wind-shared trace: no speed scale, the segment length a parameter, the  *)
(* positions not scaled.                                                   *)
(***************************************************************************)
WindTraceStart(x0, y0) ==
    [x |-> x0, y |-> y0, t |-> 0, i |-> 0, done |-> FALSE,
     line |-> <<Vertex(x0, y0, 0)>>]

\* v < MIN_SPEED_THRESHOLD
WindBelowMinSpeed(v) == v * MIN_SPEED_THRESHOLD_INV < VelScale

WindTraceStep(f, st, segLen) ==
    IF ~(st.i < windMaxSteps) THEN [st EXCEPT !.done = TRUE]
    ELSE
    LET fv == Sample(f, st.x, st.y)
        vx == fv[1]
        vy == fv[2]
        v == Sqrt(vx * vx + vy * vy)
    IN  IF WindBelowMinSpeed(v) THEN [st EXCEPT !.done = TRUE]
        ELSE
        LET dx == Div(vx * NormScale, v)
            dy == Div(vy * NormScale, v)
            x == st.x + (dx * segLen * PosScale) \div NormScale
            y == st.y + (dy * segLen * PosScale) \div NormScale
            dt == Div(segLen * VelScale * TimeScale, v)
            t == st.t + dt
        IN  [x |-> x, y |-> y, t |-> t, i |-> st.i + 1, done |-> FALSE,
             line |-> Append(st.line, Vertex(x, y, t))]

RECURSIVE WindTraceRun(_, _, _)
WindTraceRun(f, st, segLen) ==
    IF st.done THEN st.line ELSE WindTraceRun(f, WindTraceStep(f, st, segLen), segLen)

windTrace(f, x0, y0, segLen) ==
    WindTraceRun(f, WindTraceStart(x0 * PosScale, y0 * PosScale), segLen)

(***************************************************************************)
(* core/util createRand: a seeded generator of numbers in [0, 1).  The     *)
(* generator is a closure over its state; the model keeps the state.       *)
(***************************************************************************)
RandMod == 4 * 4
RandNext(s) == (5 * s + 3) % RandMod
\* the number drawn in state s, in 1/RandScale units
RandValue(s) == (s * RandScale) \div RandMod

(***************************************************************************)
(* getStreamLines: one trace per line, each seed two draws of rand.        *)
(***************************************************************************)
RECURSIVE StreamLinesLoop(_, _, _, _, _, _)
StreamLinesLoop(f, columns, rows, cellSize, s, i) ==
    IF ~(i < linesPerVisualization) THEN <<>>
    ELSE
    LET s1 == RandNext(s)
        s2 == RandNext(s1)
        line == trace(f, Round(RandValue(s1) * columns, RandScale),
                         Round(RandValue(s2) * rows, RandScale), cellSize)
    IN  <<line>> \o StreamLinesLoop(f, columns, rows, cellSize, s2, i + 1)

\* seed: the state createRand() starts from
getStreamLines(f, columns, rows, cellSize, seed) ==
    StreamLinesLoop(f, columns, rows, cellSize, seed, 0)

(***************************************************************************)
(* The body of the mesh loop: the quad of one segment, the ribbon of one   *)
(* line.                                                                   *)
(***************************************************************************)
\* SegmentVertices with the segment's direction in place of its normal
SegmentVerticesTangent(v0, v1, totalTime, random, speedFactor) ==
    LET x0 == v0.position[1]
        y0 == v0.position[2]
        t0 == v0.time
        x1 == v1.position[1]
        y1 == v1.position[2]
        t1 == v1.time
        speed == Div(speedFactor * TimeScale * SpeedOutScale, t1 - t0)
        l == Sqrt((x1 - x0) * (x1 - x0) + (y1 - y0) * (y1 - y0))
        ex == Div((x1 - x0) * NormScale, l)
        ey == Div((y1 - y0) * NormScale, l)
    IN  <<x0, y0, ex, ey, -1, t0, totalTime, speed, random,
          x0, y0, Neg(ex), Neg(ey), 1, t0, totalTime, speed, random,
          x1, y1, ex, ey, -1, t1, totalTime, speed, random,
          x1, y1, Neg(ex), Neg(ey), 1, t1, totalTime, speed, random>>

\* lines 223-274 (wind-shared 149-162): the four vertices, nine floats each
SegmentVertices(v0, v1, totalTime, random, speedFactor) ==
    LET x0 == v0.position[1]
        y0 == v0.position[2]
        t0 == v0.time
        x1 == v1.position[1]
        y1 == v1.position[2]
        t1 == v1.time
        speed == Div(speedFactor * TimeScale * SpeedOutScale, t1 - t0)
        l == Sqrt((x1 - x0) * (x1 - x0) + (y1 - y0) * (y1 - y0))
        ex == Div(-(y1 - y0) * NormScale, l)
        ey == Div((x1 - x0) * NormScale, l)
    IN  <<x0, y0, ex, ey, -1, t0, totalTime, speed, random,
          x0, y0, Neg(ex), Neg(ey), 1, t0, totalTime, speed, random,
          x1, y1, ex, ey, -1, t1, totalTime, speed, random,
          x1, y1, Neg(ex), Neg(ey), 1, t1, totalTime, speed, random>>

\* SegmentIndices counting from the vertex count after the quad
SegmentIndicesAfterQuad(vertexCount) ==
    <<vertexCount + 4, vertexCount + 5, vertexCount + 6,
      vertexCount + 5, vertexCount + 7, vertexCount + 6>>

\* lines 276-283 (wind-shared 164-171)
SegmentIndices(vertexCount) ==
    <<vertexCount + 0, vertexCount + 1, vertexCount + 2,
      vertexCount + 1, vertexCount + 3, vertexCount + 2>>

\* lines 222-286: for (let i = 1; i < line.length; i++), from segment i on;
\* m is [vertexData, indexData, vertexCount]
RECURSIVE SegmentsLoop(_, _, _, _, _, _)
SegmentsLoop(line, i, totalTime, random, speedFactor, m) ==
    IF ~(i < Len(line)) THEN m
    ELSE SegmentsLoop(line, i + 1, totalTime, random, speedFactor,
            [vertexData |-> m.vertexData \o
                 SegmentVertices(line[i], line[i + 1], totalTime, random, speedFactor),
             indexData |-> m.indexData \o SegmentIndices(m.vertexCount),
             vertexCount |-> m.vertexCount + 4])

\* lines 218-286 (wind-shared 144-174): one line added to the mesh under
\* construction
AddLine(line, random, speedFactor, m) ==
    LET lastVertex == line[Len(line)]
        totalTime == lastVertex.time
    IN  SegmentsLoop(line, 1, totalTime, random, speedFactor, m)

EmptyMesh == [vertexData |-> <<>>, indexData |-> <<>>, vertexCount |-> 0]

(***************************************************************************)
(* Typed arrays and buffers.                                               *)
(***************************************************************************)
Two24 == 4096 * 4096

RECURSIVE FroundMag(_, _)
FroundMag(a, q) ==
    IF a \div q < Two24 THEN ((a + q \div 2) \div q) * q ELSE FroundMag(a, 2 * q)

\* the float32 nearest to a: 24 significant bits
Fround(a) ==
    IF ~IsFinite(a) THEN a
    ELSE IF a < 0 THEN -FroundMag(-a, 1) ELSE FroundMag(a, 1)

\* ToUint32: a modulo 2^32
ToUint32(a) == (a % 65536) + 65536 * ((a \div 65536) % 65536)

\* new Float32Array(numbers), new Uint32Array(numbers)
Float32Array(xs) == [k \in DOMAIN xs |-> Fround(xs[k])]
Uint32Array(xs) == [k \in DOMAIN xs |-> ToUint32(xs[k])]

\* lines 289-292: the mesh returned
ReturnedMesh(m) ==
    [vertexData |-> Float32Array(m.vertexData), indexData |-> Uint32Array(m.indexData)]


(***************************************************************************)
(* State.  Each specification below moves its own part of it.              *)
(*   sm  one call of smooth                                                *)
(*   tr  one call of trace, round by round                                 *)
(*   mb  one run of the mesh loop over given lines                         *)
(* the remaining variables are the calls of the processors.                *)
(***************************************************************************)
VARIABLES sm, tr, mb,
          flowData, seed, processor, pc, signal, channel, result,
          dpc, dsignal, elapsed, streamLines, lineIdx, randState,
          vertexCount, vertexData, indexData, traceStarts, meshStart,
          calls, lastMesh, startedAborted, linesAtAbort

driverVars == <<dpc, dsignal, elapsed, streamLines, lineIdx, randState,
                vertexCount, vertexData, indexData, traceStarts, meshStart>>
callVars == <<flowData, seed, processor, pc, signal, channel, result,
              calls, lastMesh, startedAborted, linesAtAbort>>
vars == <<sm, tr, mb, callVars, driverVars>>

Off == [stage |-> "off"]
None == [vertexData |-> <<-1>>, indexData |-> <<>>]

\* the processors at rest, for the specifications of the pure functions
ProcessorsOff ==
    /\ flowData = [columns |-> 1, rows |-> 1, cellSize |-> 1, data |-> <<0, 0>>]
    /\ seed = 0 /\ processor = "none" /\ pc = "off" /\ signal = FALSE
    /\ channel = Off /\ result = None
    /\ dpc = "none" /\ dsignal = FALSE /\ elapsed = 0 /\ streamLines = <<>>
    /\ lineIdx = 0 /\ randState = 0
    /\ vertexCount = 0 /\ vertexData = <<>> /\ indexData = <<>>
    /\ traceStarts = <<>> /\ meshStart = 0
    /\ calls = 0 /\ lastMesh = [p \in {"main", "worker"} |-> None]
    /\ startedAborted = FALSE /\ linesAtAbort = -1

(***************************************************************************)
(* Grids.                                                                  *)
(***************************************************************************)
MaxColumns == 3
MaxRows == 3

Velocities == {<<0, 0>>, <<1000, 0>>, <<-600, 800>>, <<5, 0>>, <<0, -250>>}

\* every cell vel
UniformData(columns, rows, vel) ==
    [i \in 1..(2 * columns * rows) |-> vel[Channel(i) + 1]]

\* cell 0 vel, the other cells (0, 0)
ImpulseData(columns, rows, vel) ==
    [i \in 1..(2 * columns * rows) |-> IF i <= 2 THEN vel[i] ELSE 0]

(***************************************************************************)
(* SpecSmooth: smooth applied to a grid.                                   *)
(***************************************************************************)
InitSmooth ==
    /\ sm \in [stage : {"input"}, kind : {"uniform", "impulse"},
               columns : 1..MaxColumns, rows : 1..MaxRows,
               sigma : Sigmas, vel : Velocities]
    /\ tr = Off /\ mb = Off
    /\ ProcessorsOff

SmoothData(s) ==
    IF s.kind = "uniform" THEN UniformData(s.columns, s.rows, s.vel)
    ELSE ImpulseData(s.columns, s.rows, s.vel)

Smooth ==
    /\ sm.stage = "input"
    /\ sm' = [stage |-> "output", kind |-> sm.kind, columns |-> sm.columns,
              rows |-> sm.rows, sigma |-> sm.sigma, vel |-> sm.vel,
              data |-> SmoothData(sm),
              out |-> smooth(SmoothData(sm), sm.columns, sm.rows, sm.sigma)]
    /\ UNCHANGED <<tr, mb, callVars, driverVars>>

NextSmooth == Smooth

SpecSmooth == InitSmooth /\ [][NextSmooth]_vars

\* C9: smoothing keeps the length of the table, and a grid whose cells all
\* hold the same (u, v) comes back with (u, v) in every cell, for every shape
\* and every sigma: the truncated kernel of an edge cell is renormalised by
\* its own weight and the fallback to 0 is not taken.
C9_UniformSmoothIsNoOp ==
    sm.stage = "output" =>
        /\ Len(sm.out) = 2 * sm.columns * sm.rows
        /\ Len(sm.out) = Len(sm.data)
        /\ sm.kind = "uniform" =>
              \A i \in 1..Len(sm.data) : sm.out[i] = sm.vel[Channel(i) + 1]

\* an edge cell of a one-column grid with a non-zero velocity, smoothed
C9_Witness ==
    /\ sm.stage = "output" /\ sm.kind = "uniform"
    /\ sm.columns = 1 /\ sm.rows = 2 /\ sm.sigma = 10
    /\ sm.vel = <<-600, 800>>
    /\ sm.out = <<-600, 800, -600, 800>>

(***************************************************************************)
(* SpecTrace: trace applied to a field from a seed, one round of its loop  *)
(* per step.                                                               *)
(***************************************************************************)
Field(columns, rows, data) == [columns |-> columns, rows |-> rows, data |-> data]

\* a 2 x 2 grid whose cells send the particle round: right, down, left, up
RotorData == <<1000, 0, 0, 2000, 0, -250, -500, 0>>

\* an 11 x 1 grid whose end cells send the particle to each other
BounceData == [i \in 1..22 |-> IF i = 1 THEN 2000 ELSE IF i = 21 THEN -500 ELSE 0]

\* an 11 x 1 grid that, smoothed, still sends the particle from end to end
SwingData == [i \in 1..22 |-> IF i = 1 THEN 2000 ELSE IF i = 21 THEN -2000 ELSE 0]

\* the 4 x 4 grid of the end-to-end example: every cell (1, 0)
ExampleGrid == [columns |-> 4, rows |-> 4, cellSize |-> 1,
                data |-> UniformData(4, 4, <<1000, 0>>)]

TraceFields ==
    {Field(2, 2, UniformData(2, 2, v)) : v \in Velocities \cup {<<10, 0>>}}
    \cup {Field(2, 2, RotorData), Field(11, 1, BounceData),
          createFlowFieldFromData(ExampleGrid),
          createWindFieldFromData(ExampleGrid, 1)}

CellSizes == {1, 2}
SegmentLengths == {1, 3}

InitTrace ==
    /\ \E f \in TraceFields, variant \in {"flow", "wind"} :
       \E x0 \in 0..f.columns, y0 \in 0..f.rows,
          cellSize \in CellSizes, segLen \in SegmentLengths :
          /\ variant = "flow" => segLen = 1
          /\ variant = "wind" => cellSize = 1
          /\ tr = [stage |-> "trace", variant |-> variant, f |-> f,
                   x0 |-> x0, y0 |-> y0, cellSize |-> cellSize, segLen |-> segLen,
                   st |-> IF variant = "flow"
                          THEN TraceStart(x0 * PosScale, y0 * PosScale, cellSize)
                          ELSE WindTraceStart(x0 * PosScale, y0 * PosScale)]
    /\ sm = Off /\ mb = Off
    /\ ProcessorsOff

\* flow/shared trace, one round
TraceRound ==
    /\ tr.stage = "trace" /\ tr.variant = "flow" /\ ~tr.st.done
    /\ tr' = [tr EXCEPT !.st = TraceStep(tr.f, tr.st, tr.cellSize)]
    /\ UNCHANGED <<sm, mb, callVars, driverVars>>

\* wind-shared trace, one round
WindTraceRound ==
    /\ tr.stage = "trace" /\ tr.variant = "wind" /\ ~tr.st.done
    /\ tr' = [tr EXCEPT !.st = WindTraceStep(tr.f, tr.st, tr.segLen)]
    /\ UNCHANGED <<sm, mb, callVars, driverVars>>

NextTrace == TraceRound \/ WindTraceRound

SpecTrace == InitTrace /\ [][NextTrace]_vars

\* the speed the loop computes at the particle's position
SpeedAt(f, x, y) ==
    LET fv == Sample(f, x, y) IN Sqrt(fv[1] * fv[1] + fv[2] * fv[2])

MaxStepsOf(t) == IF t.variant = "flow" THEN verticesPerLine ELSE windMaxSteps

StoppedBySpeed(t) ==
    IF t.variant = "flow" THEN BelowMinSpeed(SpeedAt(t.f, t.st.x, t.st.y))
    ELSE WindBelowMinSpeed(SpeedAt(t.f, t.st.x, t.st.y))

\* C5: trace runs at most maxSteps rounds and its line has at least the seed
\* vertex and at most maxSteps + 1 vertices; while it runs rounds are left,
\* and it ends because the speed is below the minimum or the cap is reached.
C5_TraceBounded ==
    tr.stage = "trace" =>
        /\ tr.st.i <= MaxStepsOf(tr)
        /\ Len(tr.st.line) = tr.st.i + 1
        /\ Len(tr.st.line) >= 1
        /\ Len(tr.st.line) <= MaxStepsOf(tr) + 1
        /\ tr.st.line[1].position = <<tr.x0 * PosScale * tr.cellSize,
                                      tr.y0 * PosScale * tr.cellSize>>
        /\ tr.st.done => (tr.st.i = MaxStepsOf(tr) \/ StoppedBySpeed(tr))
        /\ \A k \in 1..Len(tr.st.line) :
              /\ IsFinite(tr.st.line[k].position[1])
              /\ IsFinite(tr.st.line[k].position[2])
              /\ IsFinite(tr.st.line[k].time)

\* a trace that ended at the cap and one that ended on the speed floor
C5_WitnessCap ==
    /\ tr.stage = "trace" /\ tr.variant = "flow" /\ tr.st.done
    /\ tr.st.i = verticesPerLine /\ Len(tr.st.line) = verticesPerLine + 1

ZeroField(f) == \A i \in 1..Len(f.data) : f.data[i] = 0

SpeedFactorOf(t) == IF t.variant = "flow" THEN 1 ELSE windSpeedFactor

\* C8: in a field that is (0, 0) everywhere, trace returns from every seed
\* the seed vertex alone, at time 0, and the line adds no vertex and no
\* index to the mesh.
C8_ZeroFieldSingleVertex ==
    (tr.stage = "trace" /\ ZeroField(tr.f)) =>
        /\ Len(tr.st.line) = 1
        /\ tr.st.line[1] = Vertex(tr.x0 * PosScale * tr.cellSize,
                                  tr.y0 * PosScale * tr.cellSize, 0)
        /\ \A random \in {0, RandScale - 1} :
              LET m == ReturnedMesh(AddLine(tr.st.line, random, SpeedFactorOf(tr), EmptyMesh))
              IN  Len(m.vertexData) = 0 /\ Len(m.indexData) = 0

\* a trace in the zero field, from a seed inside the grid, ended
C8_Witness ==
    /\ tr.stage = "trace" /\ ZeroField(tr.f) /\ tr.st.done
    /\ tr.variant = "flow" /\ tr.x0 = 1 /\ tr.y0 = 1 /\ tr.st.i = 0

ExampleFlowField == createFlowFieldFromData(ExampleGrid)
ExampleWindField == createWindFieldFromData(ExampleGrid, 1)

StepOf(t) == IF t.variant = "flow" THEN segmentLength ELSE t.segLen

\* C10: on the 4 x 4 grid whose cells are all (1, 0), smoothed, from the
\* seed (0, 0): every vertex keeps the seed's y, x advances by one step per
\* vertex, the trace stops on the speed floor at the first vertex whose
\* nearest column is >= 4, where the sampler returns (0, 0), and the line's
\* ribbon has one quad per step, its edge normal (0, 1) across the flow.
C10_StraightLineExample ==
    (/\ tr.stage = "trace" /\ tr.st.done
     /\ tr.f \in {ExampleFlowField, ExampleWindField}
     /\ tr.x0 = 0 /\ tr.y0 = 0) =>
        LET line == tr.st.line
            n == Len(line)
            m == AddLine(line, 0, SpeedFactorOf(tr), EmptyMesh)
        IN  /\ tr.f.data = ExampleGrid.data
            /\ \A k \in 1..n :
                  line[k].position =
                      <<(k - 1) * StepOf(tr) * PosScale * tr.cellSize, 0>>
            /\ \A k \in 1..(n - 1) : (k - 1) * StepOf(tr) < 4
            /\ (n - 1) * StepOf(tr) >= 4
            /\ Sample(tr.f, tr.st.x, tr.st.y) = <<0, 0>>
            /\ tr.st.i < MaxStepsOf(tr)
            /\ m.vertexCount = 4 * tr.st.i
            /\ Len(m.vertexData) = 9 * 4 * tr.st.i
            /\ Len(m.indexData) = 6 * tr.st.i
            /\ \A j \in 0..(tr.st.i - 1) :
                  /\ m.vertexData[36 * j + 3] = 0
                  /\ m.vertexData[36 * j + 4] = NormScale
                  /\ m.vertexData[36 * j + 9 + 3] = 0
                  /\ m.vertexData[36 * j + 9 + 4] = -NormScale

\* the example as stated: step length 1, four steps to leave the grid
C10_Witness ==
    /\ tr.stage = "trace" /\ tr.st.done /\ tr.variant = "wind"
    /\ tr.f = ExampleWindField /\ tr.x0 = 0 /\ tr.y0 = 0 /\ tr.segLen = 1
    /\ Len(tr.st.line) = 5 /\ tr.st.x = 4 * PosScale

(***************************************************************************)
(* SpecMesh: the mesh loop of createStreamLinesMesh and of createWindMesh  *)
(* over given lines, one line per step, then the return.                   *)
(***************************************************************************)
MaxMeshLines == 2

LineShapes ==
    {<<Vertex(0, 0, 0)>>,
     <<Vertex(0, 0, 0), Vertex(1000, 0, 50000)>>,
     <<Vertex(100, 200, 0), Vertex(700, 1000, 100000), Vertex(100, 200, 300000)>>,
     <<Vertex(0, 0, 0), Vertex(0, -1000, 20000), Vertex(1000, -1000, 40000),
       Vertex(1000, 0, 50000)>>,
     <<Vertex(500, 500, 0), Vertex(500, 500, 0)>>,
     <<Vertex(0, 0, 0), Vertex(0, 500, 0)>>}

\* the values Math.random() is given in the model
Randoms == {0, RandScale - 1}
RandSeeds == {0, 7, 9}

InitMesh ==
    /\ \E n \in 0..MaxMeshLines, variant \in {"flow", "wind"} :
       \E lines \in [1..n -> LineShapes], s \in RandSeeds :
          mb = [stage |-> "mesh", variant |-> variant, lines |-> lines, idx |-> 0,
                rs |-> s, m |-> EmptyMesh, out |-> None]
    /\ sm = Off /\ tr = Off
    /\ ProcessorsOff

\* createStreamLinesMesh lines 218-286: one round of the loop, no yield
MeshFlowLine ==
    /\ mb.stage = "mesh" /\ mb.variant = "flow" /\ mb.idx < Len(mb.lines)
    /\ mb' = [mb EXCEPT !.idx = mb.idx + 1,
                        !.rs = RandNext(mb.rs),
                        !.m = AddLine(mb.lines[mb.idx + 1], RandValue(RandNext(mb.rs)),
                                      1, mb.m)]
    /\ UNCHANGED <<sm, tr, callVars, driverVars>>

\* createWindMesh lines 143-175: one round of the loop
MeshWindLine ==
    /\ mb.stage = "mesh" /\ mb.variant = "wind" /\ mb.idx < Len(mb.lines)
    /\ \E random \in Randoms :
          mb' = [mb EXCEPT !.idx = mb.idx + 1,
                           !.m = AddLine(mb.lines[mb.idx + 1], random,
                                         windSpeedFactor, mb.m)]
    /\ UNCHANGED <<sm, tr, callVars, driverVars>>

\* the return of either function
MeshReturn ==
    /\ mb.stage = "mesh" /\ mb.idx = Len(mb.lines)
    /\ mb' = [mb EXCEPT !.stage = "returned", !.out = ReturnedMesh(mb.m)]
    /\ UNCHANGED <<sm, tr, callVars, driverVars>>

NextMesh == MeshFlowLine \/ MeshWindLine \/ MeshReturn

SpecMesh == InitMesh /\ [][NextMesh]_vars

\* the segments of the first n lines: the sum of k_i - 1
RECURSIVE SegmentCount(_, _)
SegmentCount(lines, n) ==
    IF n = 0 THEN 0 ELSE SegmentCount(lines, n - 1) + (Len(lines[n]) - 1)

\* C7: after the lines 1..n, of k_i >= 1 vertices each, the mesh holds
\* 4 * sum(k_i - 1) vertices of 9 floats and 6 * sum(k_i - 1) indices, every
\* index below the vertex count; the mesh returned has these lengths.
C7_MeshCounts ==
    mb.stage \in {"mesh", "returned"} =>
        LET segs == SegmentCount(mb.lines, mb.idx)
        IN  /\ mb.m.vertexCount = 4 * segs
            /\ Len(mb.m.vertexData) = 9 * 4 * segs
            /\ Len(mb.m.indexData) = 6 * segs
            /\ \A j \in 1..Len(mb.m.indexData) :
                  mb.m.indexData[j] >= 0 /\ mb.m.indexData[j] < mb.m.vertexCount
            /\ mb.stage = "returned" =>
                  /\ mb.idx = Len(mb.lines)
                  /\ Len(mb.out.vertexData) = 9 * 4 * segs
                  /\ Len(mb.out.indexData) = 6 * segs
                  /\ \A j \in 1..Len(mb.out.indexData) :
                        mb.out.indexData[j] < Len(mb.out.vertexData) \div 9

\* a mesh returned for a single-vertex line followed by a line of 3 segments
C7_Witness ==
    /\ mb.stage = "returned" /\ Len(mb.lines) = 2
    /\ Len(mb.lines[1]) = 1 /\ Len(mb.lines[2]) = 4
    /\ Len(mb.out.indexData) = 18 /\ Len(mb.out.vertexData) = 108

\* a consecutive vertex pair with no time between its ends or no length
Degenerate(v0, v1) == v1.time = v0.time \/ v1.position = v0.position

\* the pairs of the first n lines that are not degenerate
RECURSIVE SoundSegmentCount(_, _)
SoundSegmentCount(lines, n) ==
    IF n = 0 THEN 0
    ELSE SoundSegmentCount(lines, n - 1)
         + Cardinality({i \in 1..(Len(lines[n]) - 1) :
                           ~Degenerate(lines[n][i], lines[n][i + 1])})

\* C11: the mesh builder skips every consecutive vertex pair with t1 = t0 or
\* p1 = p0: after the lines 1..n the mesh holds the quads of the other pairs
\* only, and no value stored in it is the result of a division by zero.
C11_DegenerateSegmentSkipped ==
    mb.stage \in {"mesh", "returned"} =>
        /\ mb.m.vertexCount = 4 * SoundSegmentCount(mb.lines, mb.idx)
        /\ Len(mb.m.indexData) = 6 * SoundSegmentCount(mb.lines, mb.idx)
        /\ \A j \in 1..Len(mb.m.vertexData) : IsFinite(mb.m.vertexData[j])

(***************************************************************************)
(* Buffers.  An ArrayBuffer is its bytes; an element of a Float32Array or  *)
(* a Uint32Array is four of them, low byte first.  The bit pattern of a    *)
(* float is taken to be the two's complement of its fixed-point integer.   *)
(***************************************************************************)
Byte(a, k) ==
    CASE k = 0 -> a % 256
      [] k = 1 -> (a \div 256) % 256
      [] k = 2 -> (a \div 65536) % 256
      [] k = 3 -> (a \div 16777216) % 256

\* typedArray.buffer
BufferOf(xs) == [j \in 1..(4 * Len(xs)) |-> Byte(xs[(j - 1) \div 4 + 1], (j - 1) % 4)]

Float32At(buffer, k) ==
    LET b == 4 * (k - 1)
        high == IF buffer[b + 4] >= 128 THEN buffer[b + 4] - 256 ELSE buffer[b + 4]
    IN  buffer[b + 1] + 256 * buffer[b + 2] + 65536 * buffer[b + 3] + 16777216 * high

\* an element read as unsigned; one with the top bit set is beyond the
\* model's integers and reads as Infinity
Uint32At(buffer, k) ==
    LET b == 4 * (k - 1)
    IN  IF buffer[b + 4] >= 128 THEN Infinity
        ELSE buffer[b + 1] + 256 * buffer[b + 2] + 65536 * buffer[b + 3]
             + 16777216 * buffer[b + 4]

\* new Float32Array(buffer), new Uint32Array(buffer)
Float32ArrayOfBuffer(buffer) == [k \in 1..(Len(buffer) \div 4) |-> Float32At(buffer, k)]
Uint32ArrayOfBuffer(buffer) == [k \in 1..(Len(buffer) \div 4) |-> Uint32At(buffer, k)]

(***************************************************************************)
(* core/util.  throwIfAborted(signal) throws when the signal is set;       *)
(* rest(signal) suspends the caller and, resumed, throws when the signal   *)
(* is set.                                                                 *)
(***************************************************************************)
ThrowIfAborted(sig) == sig
RestThrows(sig) == sig

(***************************************************************************)
(* Spec: calls of MainFlowProcessor.createStreamLinesMesh and of           *)
(* WorkerFlowProcessor.createStreamLinesMesh on one grid.                  *)
(*                                                                         *)
(*   pc   the call as the caller sees it: idle, connecting (awaiting the   *)
(*        connection), invoking (awaiting the worker), running (the local  *)
(*        driver), done, cancelled                                         *)
(*   dpc  createStreamLinesMesh of flow/shared, here or in the worker:     *)
(*        none, loop, resting (suspended in rest), returned, thrown        *)
(*   elapsed  performance.now() - restTime                                 *)
(*                                                                         *)
(* A thread runs one piece of code to its next await: the signal of a      *)
(* driver changes only while the driver is suspended or not yet started.   *)
(***************************************************************************)
MaxCalls == 2

FlowDatas ==
    {[columns |-> 1, rows |-> 1, cellSize |-> 1, data |-> <<0, 0>>],
     [columns |-> 2, rows |-> 2, cellSize |-> 2, data |-> UniformData(2, 2, <<1000, 0>>)],
     [columns |-> 2, rows |-> 2, cellSize |-> 1, data |-> RotorData],
     [columns |-> 11, rows |-> 1, cellSize |-> 1, data |-> SwingData]}

\* the milliseconds a line of the mesh loop takes, and a rest takes
LineCosts == {40, 120}
RestPauses == {0, 150}

NoMessages == [request |-> Off, abort |-> FALSE, response |-> Off]

DriverIdle ==
    /\ dpc = "none" /\ dsignal = FALSE /\ elapsed = 0 /\ streamLines = <<>>
    /\ lineIdx = 0 /\ randState = 0
    /\ vertexCount = 0 /\ vertexData = <<>> /\ indexData = <<>>
    /\ traceStarts = <<>> /\ meshStart = 0

Init ==
    /\ flowData \in FlowDatas
    /\ seed \in RandSeeds
    /\ processor = "none" /\ pc = "idle" /\ signal = FALSE
    /\ channel = NoMessages /\ result = None
    /\ DriverIdle
    /\ calls = 0 /\ lastMesh = [p \in {"main", "worker"} |-> None]
    /\ startedAborted = FALSE /\ linesAtAbort = -1
    /\ sm = Off /\ tr = Off /\ mb = Off

\* the time trace takes for one line, in ms
TraceCosts == {40, 120}

\* getStreamLines lines 179-182 on the clock: the loop reads no clock and has
\* no await, so line k starts when the lines before it are done, whatever
\* time they took; the times are counted from the start of the call
TraceStartTimes(costs) ==
    [k \in 1..linesPerVisualization |-> SeqSum([j \in 1..(k - 1) |-> costs[j]])]

\* createStreamLinesMesh lines 198-208: up to the mesh loop; restTime is read
\* once the lines are traced
DriverStart(fd, sig) ==
    LET f == createFlowFieldFromData(fd)
    IN  /\ streamLines' = getStreamLines(f, fd.columns, fd.rows, fd.cellSize, seed)
        /\ \E costs \in [1..(linesPerVisualization - 1) -> TraceCosts] :
               traceStarts' = TraceStartTimes(costs)
        /\ meshStart' = 0
        /\ randState' = seed
        /\ vertexCount' = 0 /\ vertexData' = <<>> /\ indexData' = <<>>
        /\ lineIdx' = 0
        /\ elapsed' = 0
        /\ dsignal' = sig
        /\ dpc' = "loop"

\* lines 218-286: the line at lineIdx added to the mesh
DriverAddLine ==
    LET m == AddLine(streamLines[lineIdx + 1], RandValue(RandNext(randState)), 1,
                     [vertexData |-> vertexData, indexData |-> indexData,
                      vertexCount |-> vertexCount])
    IN  /\ randState' = RandNext(randState)
        /\ vertexData' = m.vertexData
        /\ indexData' = m.indexData
        /\ vertexCount' = m.vertexCount
        /\ lineIdx' = lineIdx + 1

\* the caller sets the signal before the call, or while the delegated call
\* awaits its connection
AbortEarly ==
    /\ ~signal /\ pc \in {"idle", "connecting"}
    /\ signal' = TRUE
    /\ UNCHANGED <<flowData, seed, processor, pc, channel, result, calls, lastMesh,
                   startedAborted, linesAtAbort>>
    /\ UNCHANGED <<sm, tr, mb, driverVars>>

\* the caller sets the signal while the local driver is suspended in rest:
\* the driver holds the same signal
AbortResting ==
    /\ ~signal /\ pc = "running" /\ dpc = "resting"
    /\ signal' = TRUE
    /\ dsignal' = TRUE
    /\ linesAtAbort' = lineIdx
    /\ UNCHANGED <<flowData, seed, processor, pc, channel, result, calls, lastMesh,
                   startedAborted>>
    /\ UNCHANGED <<elapsed, streamLines, traceStarts, meshStart, lineIdx, randState, vertexCount, vertexData,
                   indexData, dpc>>
    /\ UNCHANGED <<sm, tr, mb>>

\* the caller sets the signal while the delegated call awaits the worker:
\* invoke rejects and the worker is notified
AbortInvoking ==
    /\ ~signal /\ pc = "invoking"
    /\ signal' = TRUE
    /\ pc' = "cancelled"
    /\ channel' = [channel EXCEPT !.abort = TRUE]
    /\ UNCHANGED <<flowData, seed, processor, result, calls, lastMesh,
                   startedAborted, linesAtAbort>>
    /\ UNCHANGED <<sm, tr, mb, driverVars>>

\* MainFlowProcessor.createStreamLinesMesh: the driver runs in the caller's
\* thread, from the call on
CallMain ==
    /\ pc = "idle" /\ calls < MaxCalls
    /\ processor' = "main"
    /\ calls' = calls + 1
    /\ startedAborted' = signal
    /\ pc' = "running"
    /\ DriverStart(flowData, signal)
    /\ UNCHANGED <<flowData, seed, signal, channel, result, lastMesh, linesAtAbort>>
    /\ UNCHANGED <<sm, tr, mb>>

\* WorkerFlowProcessor.createStreamLinesMesh line 51: await this.connection
CallWorker ==
    /\ pc = "idle" /\ calls < MaxCalls
    /\ processor' = "worker"
    /\ calls' = calls + 1
    /\ startedAborted' = signal
    /\ pc' = "connecting"
    /\ UNCHANGED <<flowData, seed, signal, channel, result, lastMesh, linesAtAbort>>
    /\ UNCHANGED <<sm, tr, mb, driverVars>>

\* lines 53-67: throwIfAborted, then invoke with the grid's buffer
Connected ==
    /\ pc = "connecting"
    /\ IF ThrowIfAborted(signal)
       THEN /\ pc' = "cancelled"
            /\ UNCHANGED channel
       ELSE /\ pc' = "invoking"
            /\ channel' = [channel EXCEPT !.request =
                   [stage |-> "sent", columns |-> flowData.columns,
                    rows |-> flowData.rows, cellSize |-> flowData.cellSize,
                    buffer |-> BufferOf(flowData.data)]]
    /\ UNCHANGED <<flowData, seed, processor, signal, result, calls, lastMesh,
                   startedAborted, linesAtAbort>>
    /\ UNCHANGED <<sm, tr, mb, driverVars>>

\* the worker's handler: the grid rebuilt from the buffer, the driver started
RemoteStart ==
    /\ channel.request # Off /\ dpc = "none"
    /\ DriverStart([columns |-> channel.request.columns, rows |-> channel.request.rows,
                    cellSize |-> channel.request.cellSize,
                    data |-> Float32ArrayOfBuffer(channel.request.buffer)], FALSE)
    /\ channel' = [channel EXCEPT !.request = Off]
    /\ UNCHANGED <<flowData, seed, processor, pc, signal, result, calls, lastMesh,
                   startedAborted, linesAtAbort>>
    /\ UNCHANGED <<sm, tr, mb>>

\* the worker, its driver suspended, takes the notification of the abort
DeliverAbort ==
    /\ channel.abort /\ dpc = "resting"
    /\ dsignal' = TRUE
    /\ linesAtAbort' = lineIdx
    /\ channel' = [channel EXCEPT !.abort = FALSE]
    /\ UNCHANGED <<flowData, seed, processor, pc, signal, result, calls, lastMesh,
                   startedAborted>>
    /\ UNCHANGED <<elapsed, streamLines, traceStarts, meshStart, lineIdx, randState, vertexCount, vertexData,
                   indexData, dpc>>
    /\ UNCHANGED <<sm, tr, mb>>

\* lines 210-287: one round of the mesh loop that does not yield
BuildLine ==
    /\ dpc = "loop" /\ lineIdx < Len(streamLines)
    /\ ~(elapsed > flowProcessingQuanta)
    /\ DriverAddLine
    /\ meshStart' = elapsed
    /\ \E cost \in LineCosts : elapsed' = elapsed + cost
    /\ UNCHANGED <<dpc, dsignal, streamLines, traceStarts>>
    /\ UNCHANGED <<sm, tr, mb, callVars>>

\* lines 211-215: the quantum is exceeded, the driver suspends in rest
Yield ==
    /\ dpc = "loop" /\ lineIdx < Len(streamLines)
    /\ elapsed > flowProcessingQuanta
    /\ elapsed' = 0
    /\ dpc' = "resting"
    /\ UNCHANGED <<dsignal, streamLines, traceStarts, meshStart, lineIdx, randState, vertexCount, vertexData,
                   indexData>>
    /\ UNCHANGED <<sm, tr, mb, callVars>>

\* Resume returning the mesh built so far when rest finds the signal set
ResumeReturnsPartial ==
    /\ dpc = "resting"
    /\ IF RestThrows(dsignal)
       THEN /\ dpc' = "returned"
            /\ pc' = IF processor = "main" THEN "done" ELSE pc
            /\ result' = IF processor = "main"
                         THEN ReturnedMesh([vertexData |-> vertexData,
                                            indexData |-> indexData])
                         ELSE result
            /\ UNCHANGED <<elapsed, lineIdx, randState, vertexCount, vertexData,
                           indexData, meshStart>>
       ELSE /\ DriverAddLine
            /\ meshStart' = 0
            /\ \E pause \in RestPauses, cost \in LineCosts :
                  elapsed' = elapsed + pause + cost
            /\ dpc' = "loop"
            /\ UNCHANGED <<pc, result>>
    /\ UNCHANGED <<dsignal, streamLines, traceStarts>>
    /\ UNCHANGED <<flowData, seed, processor, signal, channel, calls, lastMesh,
                   startedAborted, linesAtAbort>>
    /\ UNCHANGED <<sm, tr, mb>>

\* Resume going on with the round whatever rest finds
ResumeIgnoresAbort ==
    /\ dpc = "resting"
    /\ DriverAddLine
    /\ meshStart' = 0
    /\ \E pause \in RestPauses, cost \in LineCosts :
          elapsed' = elapsed + pause + cost
    /\ dpc' = "loop"
    /\ UNCHANGED <<dsignal, streamLines, traceStarts>>
    /\ UNCHANGED <<flowData, seed, processor, pc, signal, channel, result, calls,
                   lastMesh, startedAborted, linesAtAbort>>
    /\ UNCHANGED <<sm, tr, mb>>

\* line 215 on: rest throws and the call ends cancelled, or the round goes on
Resume ==
    /\ dpc = "resting"
    /\ IF RestThrows(dsignal)
       THEN /\ dpc' = "thrown"
            /\ pc' = IF processor = "main" THEN "cancelled" ELSE pc
            /\ UNCHANGED <<elapsed, lineIdx, randState, vertexCount, vertexData,
                           indexData, meshStart>>
       ELSE /\ DriverAddLine
            /\ meshStart' = 0
            /\ \E pause \in RestPauses, cost \in LineCosts :
                  elapsed' = elapsed + pause + cost
            /\ dpc' = "loop"
            /\ UNCHANGED pc
    /\ UNCHANGED <<dsignal, streamLines, traceStarts>>
    /\ UNCHANGED <<flowData, seed, processor, signal, channel, result, calls, lastMesh,
                   startedAborted, linesAtAbort>>
    /\ UNCHANGED <<sm, tr, mb>>

\* lines 289-292: the mesh returned, to the caller or to the worker's reply
Return ==
    /\ dpc = "loop" /\ lineIdx = Len(streamLines)
    /\ dpc' = "returned"
    /\ LET mesh == ReturnedMesh([vertexData |-> vertexData, indexData |-> indexData])
       IN  IF processor = "main"
           THEN /\ pc' = "done"
                /\ result' = mesh
                /\ lastMesh' = [lastMesh EXCEPT !["main"] = mesh]
                /\ UNCHANGED channel
           ELSE /\ channel' = [channel EXCEPT !.response =
                       [stage |-> "sent", vertexBuffer |-> BufferOf(mesh.vertexData),
                        indexBuffer |-> BufferOf(mesh.indexData)]]
                /\ UNCHANGED <<pc, result, lastMesh>>
    /\ UNCHANGED <<flowData, seed, processor, signal, calls, startedAborted,
                   linesAtAbort>>
    /\ UNCHANGED <<dsignal, elapsed, streamLines, traceStarts, meshStart, lineIdx, randState, vertexCount,
                   vertexData, indexData>>
    /\ UNCHANGED <<sm, tr, mb>>

\* Receive wrapping the vertex buffer as a Uint32Array
ReceiveVerticesAsUint32 ==
    /\ pc = "invoking" /\ channel.response # Off
    /\ LET mesh == [vertexData |-> Uint32ArrayOfBuffer(channel.response.vertexBuffer),
                    indexData |-> Uint32ArrayOfBuffer(channel.response.indexBuffer)]
       IN  /\ result' = mesh
           /\ lastMesh' = [lastMesh EXCEPT !["worker"] = mesh]
    /\ pc' = "done"
    /\ channel' = [channel EXCEPT !.response = Off]
    /\ UNCHANGED <<flowData, seed, processor, signal, calls, startedAborted,
                   linesAtAbort>>
    /\ UNCHANGED <<sm, tr, mb, driverVars>>

\* WorkerFlowProcessor lines 69-72: the reply's buffers wrapped
Receive ==
    /\ pc = "invoking" /\ channel.response # Off
    /\ LET mesh == [vertexData |-> Float32ArrayOfBuffer(channel.response.vertexBuffer),
                    indexData |-> Uint32ArrayOfBuffer(channel.response.indexBuffer)]
       IN  /\ result' = mesh
           /\ lastMesh' = [lastMesh EXCEPT !["worker"] = mesh]
    /\ pc' = "done"
    /\ channel' = [channel EXCEPT !.response = Off]
    /\ UNCHANGED <<flowData, seed, processor, signal, calls, startedAborted,
                   linesAtAbort>>
    /\ UNCHANGED <<sm, tr, mb, driverVars>>

\* the call is over and its driver stopped: the caller may call again, with
\* a fresh signal
NextCall ==
    /\ pc \in {"done", "cancelled"} /\ dpc \in {"none", "returned", "thrown"}
    /\ calls < MaxCalls
    /\ processor' = "none" /\ pc' = "idle" /\ signal' = FALSE
    /\ channel' = NoMessages /\ result' = None
    /\ dpc' = "none" /\ dsignal' = FALSE /\ elapsed' = 0 /\ streamLines' = <<>>
    /\ lineIdx' = 0 /\ randState' = 0
    /\ vertexCount' = 0 /\ vertexData' = <<>> /\ indexData' = <<>>
    /\ traceStarts' = <<>> /\ meshStart' = 0
    /\ startedAborted' = FALSE /\ linesAtAbort' = -1
    /\ UNCHANGED <<flowData, seed, calls, lastMesh>>
    /\ UNCHANGED <<sm, tr, mb>>

Next ==
    \/ AbortEarly \/ AbortResting \/ AbortInvoking
    \/ CallMain \/ CallWorker \/ Connected
    \/ RemoteStart \/ DeliverAbort
    \/ BuildLine \/ Yield \/ Resume \/ Return
    \/ Receive \/ NextCall

Spec == Init /\ [][Next]_vars

\* C1: a call ends in one of two ways.  Done: its result is the mesh of all
\* the lines generated, every line's segments in it.  Cancelled: the signal
\* is set and there is no result.  No call that is not done has a result.
C1_CompleteOrCancelled ==
    /\ pc = "done" =>
          /\ dpc = "returned"
          /\ Len(streamLines) = linesPerVisualization
          /\ lineIdx = Len(streamLines)
          /\ result.vertexData = Float32Array(vertexData)
          /\ result.indexData = Uint32Array(indexData)
          /\ Len(result.vertexData) = 9 * 4 * SegmentCount(streamLines, Len(streamLines))
          /\ Len(result.indexData) = 6 * SegmentCount(streamLines, Len(streamLines))
    /\ pc # "done" => result = None
    /\ pc = "cancelled" => signal
    /\ pc \in {"idle", "connecting", "invoking", "running", "done", "cancelled"}

\* a local call cancelled with part of the mesh built and lines left
C1_Witness ==
    /\ pc = "cancelled" /\ processor = "main" /\ dpc = "thrown"
    /\ vertexCount > 0 /\ lineIdx < Len(streamLines)
    /\ result = None

\* C2 as claimed: a call started with the signal set never ends done.
C2_CancelledWhenSetAtStart ==
    startedAborted => pc # "done"

\* C3: when the signal is set with the driver suspended between two lines,
\* the driver adds no line after it: it stays suspended or has thrown, the
\* call has no result and, the driver thrown, is cancelled.
C3_NoLineAfterAbort ==
    linesAtAbort # -1 =>
        /\ dsignal
        /\ lineIdx = linesAtAbort
        /\ dpc \in {"resting", "thrown"}
        /\ result = None
        /\ pc \in {"running", "cancelled"}
        /\ dpc = "thrown" => pc = "cancelled"

\* the signal set after the first line, the driver stopped before the second
C3_Witness ==
    /\ linesAtAbort = 1 /\ lineIdx = 1 /\ Len(streamLines) > 1
    /\ processor = "main" /\ dpc = "thrown" /\ pc = "cancelled"
    /\ Len(streamLines[2]) > 1

C12_BothLoopsChunked ==
    dpc # "none" =>
        /\ \A k \in 1..Len(traceStarts) : ~(traceStarts[k] > flowProcessingQuanta)
        /\ ~(meshStart > flowProcessingQuanta)
        /\ dpc = "resting" => lineIdx < Len(streamLines)

=============================================================================
